---- MODULE Spec2Model ----
(***************************************************************************)
(* Model of tigre/algorithms/iterative_recon_alg.py: the class             *)
(* IterativeReconAlg (construction, the four builders, the main loop and   *)
(* its error measurement) and the entry point iterativereconalg.           *)
(*                                                                         *)
(* The source is Python 2 (dict.has_key, time.clock); it is modelled with  *)
(* the semantics of that interpreter and of the numpy it runs with.        *)
(*                                                                         *)
(* Python values are records tagged by the field t.  The instance          *)
(* dictionary self.__dict__ is the function self from attribute names to   *)
(* values.  numpy arrays that the program mutates in place (the volume)    *)
(* and the geometry objects live on heaps and are held by reference, so    *)
(* that aliasing and copying are what the code makes them.                 *)
(***************************************************************************)
EXTENDS Integers, Sequences, FiniteSets, TLC

\* ---------------------------------------------------------------- bounds

\* largest niter the caller passes
MaxIter == 3
\* how many times the caller invokes iterativereconalg with the same inputs
MaxEngines == 2
\* how many times the caller invokes run_main_iter on one engine
MaxCalls == 2

\* ---------------------------------------------------------- Python values

None == [t |-> "none"]
Str(s) == [t |-> "str", s |-> s]
Bool(b) == [t |-> "bool", b |-> b]
IntV(n) == [t |-> "int", n |-> n]
\* a reference to a mutable numpy volume on the array heap
ArrRef(r) == [t |-> "ndarray", ref |-> r]
\* a reference to a geometry object on the geometry heap
GeoRef(r) == [t |-> "geo", ref |-> r]
\* a weight field (W or V): who made it, and its shape
Field(src, shape) == [t |-> "field", src |-> src, shape |-> shape]
\* an angle schedule component (angleblocks or angle_index) and who made it
Sched(src, what) == [t |-> "sched", src |-> src, what |-> what]
List(v) == [t |-> "list", v |-> v]

\* `if x:` on a Python value
Truthy(v) ==
    CASE v.t = "bool" -> v.b
      [] v.t = "none" -> FALSE
      [] v.t = "int" -> v.n # 0
      [] v.t = "str" -> v.s # ""
      [] v.t = "list" -> v.v # <<>>
      [] OTHER -> TRUE

\* ------------------------------------------------------------ dictionaries

EmptyDict == [k \in {} |-> None]
Entry(k, v) == [x \in {k} |-> v]
\* dict.update: the entries of g replace or extend those of f
Update(f, g) == [k \in DOMAIN f \cup DOMAIN g |-> IF k \in DOMAIN g THEN g[k] ELSE f[k]]
\* the dictionaries that hold, for the one key k, nothing or one of vals
Choice(k, vals) == {EmptyDict} \cup {Entry(k, v) : v \in vals}
\* all the unions of one dictionary of A with one of B (their keys are disjoint)
Both(A, B) == {Update(a, b) : a \in A, b \in B}

\* -------------------------------------------------------------- sequences

Count(s, x) == Cardinality({k \in 1..Len(s) : s[k] = x})
Restrict(s, S) == SelectSeq(s, LAMBDA x : x \in S)
RECURSIVE Repeat(_, _)
Repeat(s, n) == IF n <= 0 THEN <<>> ELSE s \o Repeat(s, n - 1)
Max2(a, b) == IF a >= b THEN a ELSE b

\* ----------------------------------------------------------------- floats

\* a float as a ratio; den = 0 is IEEE infinity
Rat(num, den) == [t |-> "float", num |-> num, den |-> den]
Inf == Rat(1, 0)
Finite(x) == x.den # 0
NonNegative(x) == x.num >= 0
\* x < y on finite non-negative floats
Less(x, y) == x.num * y.den < y.num * x.den
\* 1 / x on non-negative floats as numpy divides: 1 / inf is 0, 1 / 0 is inf
Reciprocal(x) == Rat(x.den, x.num)
\* a / b on the entries of a numpy array of the given dtype (b a Python int):
\* Python 2 floor-divides an integer array and truly divides a float array
ArrayDiv(dtype, a, b) == IF dtype = "int" THEN Rat(a \div b, 1) ELSE Rat(a, b)
\* min() of a non-empty sequence of finite floats
MinOf(xs) == CHOOSE m \in {xs[k] : k \in DOMAIN xs} :
                \A k \in DOMAIN xs : ~Less(xs[k], m)

\* ---------------------------------------------------------------- inputs

\* A geometry as the caller builds it: cubic voxels of edge d, sVoxel and dVoxel
\* numpy arrays of the given dtype with dVoxel = sVoxel / nVoxel element-wise.
GeometryOf(nVoxel, d, dtype, mode) ==
    [nVoxel |-> nVoxel,
     dVoxel |-> <<d, d, d>>,
     sVoxel |-> <<d * nVoxel[1], d * nVoxel[2], d * nVoxel[3]>>,
     dtype |-> dtype,
     nDetector |-> <<2, 2>>,
     sDetector |-> <<16, 16>>,
     DSD |-> 30,
     DSO |-> 20,
     offOrigin |-> <<0, 0, 0>>,
     mode |-> mode]
\* the geometries of the runs: an edge whose halves and quarters are whole
Geometry(nVoxel, mode) == GeometryOf(nVoxel, 4, "float", mode)

VoxelShapes == {<<2, 2, 2>>, <<2, 3, 2>>}
Geometries == {Geometry(n, m) : n \in VoxelShapes, m \in {"cone", "parallel"}}

\* angles as the caller passes them: 1-D (one scalar per pose) or (nangles, 3)
Angles1D == [t |-> "angles", ndim |-> 1, v |-> <<1, 2, 3>>]
Angles2D == [t |-> "angles", ndim |-> 2, rows |-> <<<<1, 0, 0>>, <<2, 1, 0>>>>]
\* angles.shape[0]
NAngles(a) == IF a.ndim = 1 THEN Len(a.v) ELSE Len(a.rows)

\* a numpy volume: its shape and (abstractly) its contents
Array(shape, val) == [shape |-> shape, val |-> val]

\* the shapes of the array a caller passes as init
InitShapes == {<<2, 2, 2>>, <<2, 3, 2>>, <<2>>, <<2, 2>>, <<>>}

\* the shape of the W that set_w computes: what Ax returns for these angles
\* and this detector
ShapeOfW(geo, angles) == <<NAngles(angles), geo.nDetector[1], geo.nDetector[2]>>

\* len(np.arange(start, stop, step)) for a negative whole step
ArangeLen(start, stop, step) ==
    IF start <= stop THEN 0
    ELSE Cardinality({k \in 0..(start - stop) : start + k * step > stop})

\* the number of entries of the coordinate ramp set_v builds along a Python
\* axis: on integer arrays the halves are floor-divided, on float arrays they
\* are exact (counted here in half units)
RampLen(geo, axis) ==
    LET s == geo.sVoxel[axis + 1]
        d == geo.dVoxel[axis + 1]
        off == geo.offOrigin[axis + 1]
        start == IF geo.dtype = "int" THEN (s \div 2) - (d \div 2) + off
                 ELSE s - d + 2 * off
        stop == IF geo.dtype = "int" THEN ((0 - s) \div 2) + (d \div 2) + off
                ELSE (0 - s) + d + 2 * off
        step == IF geo.dtype = "int" THEN 0 - d ELSE 0 - 2 * d
    IN  ArangeLen(start, stop + step, step)

\* the shape of the V that set_v computes: in cone-beam mode the grid of the
\* two ramps, expanded by a last axis, broadcast against the angles; in
\* parallel-beam mode np.ones([angles.shape[0], nVoxel[1], nVoxel[0]])
ShapeOfV(geo, angles) ==
    IF geo.mode # "parallel"
      THEN <<RampLen(geo, 1), RampLen(geo, 2), NAngles(angles)>>
      ELSE <<NAngles(angles), geo.nVoxel[2], geo.nVoxel[1]>>

\* shapes a caller-made W or V may have: the shape the builder would give, and
\* the shape for one angle more
CallerWShapes(geo, angles) ==
    {ShapeOfW(geo, angles), <<NAngles(angles) + 1, geo.nDetector[1], geo.nDetector[2]>>}
CallerVShapes(geo, angles) ==
    {ShapeOfV(geo, angles), <<NAngles(angles) + 1, geo.nVoxel[2], geo.nVoxel[1]>>}

\* keyword options of the documented kind
OptionKw ==
    Both(Both(Choice("Quameasopts", {List(<<"RMSE">>)}),
              Choice("computel2", {Bool(TRUE)})),
         Choice("verbose", {Bool(FALSE)}))
\* init: a strategy name, or the caller's array (array heap cell 1)
InitKw == Choice("init", {Str("FDK"), Str("multigrid"), ArrRef(1)})
\* pre-supplied derived quantities; the caller's res is array heap cell 2
FieldKw(geo, angles) ==
    Both(Choice("W", {Field("caller", s) : s \in CallerWShapes(geo, angles)}),
         Choice("V", {Field("caller", s) : s \in CallerVShapes(geo, angles)}))
ResKw == Choice("res", {ArrRef(2)})
SchedKw ==
    Both(Choice("angleblocks", {Sched("caller", "angleblocks")}),
         Choice("angle_index", {Sched("caller", "angle_index")}))
\* at most one further keyword: a name nothing reads, the name line 113 reads,
\* the name of a method, or the name of a log
ExtraKw ==
    {EmptyDict, Entry("foo", IntV(1)),
     Entry("angleindex", Sched("caller", "angle_index")),
     Entry("set_w", None),
     Entry("l2l", List(<<"stale">>))}

\* the ray lengths Ax finds through the unit cube of set_w, in quarters of the
\* geometry's length unit: none, shorter than any voxel's quarter, longer
RayLengths == {0, 1, 3, 8, 40}
\* the rays of the runs
UnitRays == <<0, 40>>
\* the edges and dtypes of the voxel arrays that set_w's threshold is tried on
VoxelEdges == {1, 2, 4, 6}
Dtypes == {"int", "float"}

Config(niter, geo, angles, use, kwargs, initShape, rays) ==
    [niter |-> niter, geo |-> geo, angles |-> angles, use |-> use,
     kwargs |-> kwargs, initShape |-> initShape, rays |-> rays]

PassesInitArray(kw) == "init" \in DOMAIN kw /\ kw["init"].t = "ndarray"
\* the shapes of the caller's init array worth telling apart
ShapesFor(kw, geo) == IF PassesInitArray(kw) THEN InitShapes ELSE {geo.nVoxel}

\* the loop's inputs vary: niter, the options, init, the geometry, the use
LoopKw == Both(OptionKw, InitKw)
IsLoopConfig(c) ==
    \E n \in 0..MaxIter, g \in Geometries, u \in {"function", "class"}, kw \in LoopKw :
      \E s \in ShapesFor(kw, g) : c = Config(n, g, Angles1D, u, kw, s, UnitRays)

\* construction's inputs vary: which derived quantities and further keywords
CtorKw(g, a) ==
    Both(Both(Both(Both(FieldKw(g, a), ResKw), SchedKw), ExtraKw),
         Both(Choice("verbose", {Bool(FALSE)}), Choice("init", {ArrRef(1)})))
IsCtorConfig(c) ==
    \E g \in Geometries, a \in {Angles1D, Angles2D} :
      \E kw \in CtorKw(g, a) : c = Config(1, g, a, "class", kw, g.nVoxel, UnitRays)

\* the weight fields' inputs vary: the voxel edge, the arrays' dtype, the mode,
\* the rays Ax finds; no keyword but verbose, so that both builders run
IsWeightConfig(c) ==
    \E d \in VoxelEdges, t \in Dtypes, m \in {"cone", "parallel"},
       r1 \in RayLengths, r2 \in RayLengths :
      \E kw \in Choice("verbose", {Bool(FALSE)}) :
        c = Config(0, GeometryOf(<<2, 2, 2>>, d, t, m), Angles1D, "class",
                   kw, <<2, 2, 2>>, <<r1, r2>>)

\* ----------------------------------------------------------------- state

VARIABLES
    cfg,       \* what the caller passes: proj, geo, angles, niter, **kwargs
    pc,        \* where the caller and the engine are
    self,      \* the engine's __dict__
    heap,      \* the numpy volumes, by reference
    geos,      \* the geometry objects, by reference; cell 1 is the caller's
    i,         \* run_main_iter's loop index
    res_prev,  \* run_main_iter's local res_prev
    calls,     \* builders and capabilities invoked on this engine, in order
    warned,    \* keyword names this construction has warned about
    stdout,    \* progress messages this engine has printed, in order
    err,       \* the exception that reached the caller, or None
    engines,   \* engines constructed so far
    runs,      \* calls of run_main_iter that have returned on this engine
    outs,      \* what each call of iterativereconalg returned
    got        \* what an accessor last returned to the caller that holds the
               \* engine, until that caller's next call of run_main_iter

vars == <<cfg, pc, self, heap, geos, i, res_prev, calls, warned, stdout, err,
          engines, runs, outs, got>>

\* the defaults of __init__
options ==
    [blocksize |-> IntV(20), lmbda |-> IntV(1),
     lmbda_red |-> [t |-> "float", num |-> 99, den |-> 100],
     OrderStrategy |-> None, Quameasopts |-> None, init |-> None,
     verbose |-> Bool(TRUE), noneg |-> Bool(TRUE), computel2 |-> Bool(FALSE),
     dataminimizing |-> Str("art_data_minimizing"),
     regularisation |-> Str("minimizeTV")]

allowed_keywords == {"V", "W", "log_parameters", "angleblocks", "angle_index"}

\* the attributes the class itself gives every instance: its methods and the
\* capabilities it inherits from Regularisation and DataMinimization
Methods ==
    {"set_w", "set_v", "set_res", "set_angle_index", "run_main_iter",
     "error_measurement", "getres", "getl2", "art_data_minimizing", "minimizeTV"}

hasattr(s, name) == name \in DOMAIN s \/ name \in Methods

\* self.m(): an instance attribute of that name hides the method, and the
\* values a caller's keyword puts there are data, which cannot be called
Callable(s, m) == m \in Methods /\ m \notin DOMAIN s

Exc(kind, where) == [t |-> "exc", kind |-> kind, where |-> where]

\* the keyword names the loop of __init__ finds neither among the defaults nor
\* among the allowed keywords
Unrecognised(kw) ==
    {k \in DOMAIN kw : k \notin DOMAIN options /\ k \notin allowed_keywords}

\* (a wrong line 106: np.vstack((a1, a2, a2)) without the transposition)
vstack_untransposed(a) ==
    [t |-> "angles", ndim |-> 2,
     rows |-> <<a.v, [k \in 1..Len(a.v) |-> 0], [k \in 1..Len(a.v) |-> 0]>>]
\* np.vstack((a1, a2, a2)).T
vstackT(a) ==
    [t |-> "angles", ndim |-> 2, rows |-> [k \in 1..Len(a.v) |-> <<a.v[k], 0, 0>>]]

\* the caller's two arrays: the one it may pass as init, the one it may pass as res
CallerHeap(c) == <<Array(c.initShape, 10), Array(c.geo.nVoxel, 20)>>

Init ==
    /\ IsLoopConfig(cfg) \/ IsCtorConfig(cfg) \/ IsWeightConfig(cfg)
    /\ pc = "idle"
    /\ self = EmptyDict
    /\ heap = CallerHeap(cfg)
    /\ geos = <<cfg.geo>>
    /\ i = 0
    /\ res_prev = None
    /\ calls = <<>>
    /\ warned = {}
    /\ stdout = <<>>
    /\ err = None
    /\ engines = 0
    /\ runs = 0
    /\ outs = <<>>
    /\ got = None

\* ------------------------------------------------------------ construction

\* __init__ up to the builders: the attributes, the defaults, the keywords on
\* top of them, the warnings, the angles in 3-component form
InitAttrs ==
    /\ pc = "idle"
    /\ engines < (IF cfg.use = "function" THEN MaxEngines ELSE 1)
    /\ LET base == [proj |-> [t |-> "proj"], angles |-> cfg.angles,
                    geo |-> GeoRef(1), niter |-> IntV(cfg.niter)]
           d == Update(Update(base, options), cfg.kwargs)
       IN  /\ warned' = IF Truthy(d["verbose"]) THEN Unrecognised(cfg.kwargs) ELSE {}
           /\ self' = IF d["angles"].ndim = 1
                        THEN [d EXCEPT !["angles"] = vstackT(d["angles"])]
                        ELSE d
    /\ pc' = "init_w"
    /\ engines' = engines + 1
    /\ i' = 0
    /\ res_prev' = None
    /\ calls' = <<>>
    /\ stdout' = <<>>
    /\ err' = None
    /\ runs' = 0
    /\ got' = None
    /\ UNCHANGED <<cfg, heap, geos, outs>>

\* (a wrong set_w: geox = self.geo, the caller's object itself)
deepcopy_geo_alias(gs, r) == [heap |-> gs, ref |-> r]
\* copy.deepcopy(self.geo): a new geometry object with the same contents
deepcopy_geo(gs, r) == [heap |-> Append(gs, gs[r]), ref |-> Len(gs) + 1]

\* Ax(np.ones(geox.nVoxel), geox, self.angles, "ray-voxel"): the ray lengths
Ax_of_ones(c) == [k \in DOMAIN c.rays |-> Rat(c.rays[k], 4)]

\* min(self.geo.dVoxel / 4)
Threshold(geo) == MinOf([k \in 1..3 |-> ArrayDiv(geo.dtype, geo.dVoxel[k], 4)])
\* W[W < thr] = np.inf
Clamp(W, thr) == [k \in DOMAIN W |-> IF Less(W[k], thr) THEN Inf ELSE W[k]]
\* W = 1 / W
Invert(W) == [k \in DOMAIN W |-> Reciprocal(W[k])]

\* a weight field a builder made: its shape and what is known of its entries
FieldOf(src, shape, v) == [t |-> "field", src |-> src, shape |-> shape, v |-> v]

\* the body of set_w
set_w ==
    LET r == self["geo"].ref
        cp == deepcopy_geo(geos, r)
        x == cp.ref
        g1 == [cp.heap EXCEPT ![x].sVoxel =
                  [k \in 1..3 |-> cp.heap[r].DSD - cp.heap[r].DSO]]
        g2 == [g1 EXCEPT ![x].sVoxel[3] = Max2(g1[x].sDetector[2], g1[x].sVoxel[3])]
        g3 == [g2 EXCEPT ![x].nVoxel = <<2, 2, 2>>]
        g4 == [g3 EXCEPT ![x].dVoxel =
                  [k \in 1..3 |-> g3[x].sVoxel[k] \div g3[x].nVoxel[k]]]
    IN  /\ geos' = g4
        /\ self' = Update(self, Entry("W",
                      FieldOf("set_w", ShapeOfW(g4[x], self["angles"]),
                              Invert(Clamp(Ax_of_ones(cfg), Threshold(g4[r]))))))
        /\ calls' = calls \o <<"set_w", "Ax">>
        /\ UNCHANGED <<heap, stdout, err>>

\* (a wrong line 107: set_w whatever the caller supplied)
SkipSetW_never(s) == FALSE
\* line 107
SkipSetW(s) == hasattr(s, "W")

InitW ==
    /\ pc = "init_w"
    /\ IF SkipSetW(self)
         THEN /\ pc' = "init_v"
              /\ UNCHANGED <<self, heap, geos, calls, stdout, err>>
         ELSE IF Callable(self, "set_w")
                THEN set_w /\ pc' = "init_v"
                ELSE /\ pc' = "raised"
                     /\ err' = Exc("TypeError", "set_w")
                     /\ UNCHANGED <<self, heap, geos, calls, stdout>>
    /\ UNCHANGED <<cfg, i, res_prev, warned, engines, runs, outs, got>>

\* (a wrong set_v: the cone-beam law in either mode)
EntriesOfV_falloff_always(geo, angles) ==
    [law |-> "falloff", DSO |-> geo.DSO,
     A |-> [k \in 1..NAngles(angles) |-> angles.rows[k][1]]]
\* the entries of the V that set_v computes: in cone-beam mode the falloff
\* (DSO / (DSO + yy * sin(-A) - xx * cos(-A))) ** 2 over the grid and the
\* primary angles A (line 157), in parallel-beam mode np.ones (line 162)
EntriesOfV(geo, angles) ==
    IF geo.mode # "parallel"
      THEN [law |-> "falloff", DSO |-> geo.DSO,
            A |-> [k \in 1..NAngles(angles) |-> angles.rows[k][1]]]
      ELSE [law |-> "ones"]

\* V[idx] for a V that set_v made
EntryOfV(V, idx) ==
    IF V.v.law = "ones" THEN Rat(1, 1)
    ELSE [t |-> "falloff", DSO |-> V.v.DSO, A |-> V.v.A, at |-> idx]

\* the body of set_v
set_v ==
    LET geo == geos[self["geo"].ref]
    IN  /\ self' = Update(self, Entry("V",
                      FieldOf("set_v", ShapeOfV(geo, self["angles"]),
                              EntriesOfV(geo, self["angles"]))))
        /\ calls' = Append(calls, "set_v")
        /\ UNCHANGED <<heap, geos, stdout, err>>

\* line 109
SkipSetV(s) == hasattr(s, "V")

InitV ==
    /\ pc = "init_v"
    /\ IF SkipSetV(self)
         THEN /\ pc' = "init_res"
              /\ UNCHANGED <<self, heap, geos, calls, stdout, err>>
         ELSE IF Callable(self, "set_v")
                THEN set_v /\ pc' = "init_res"
                ELSE /\ pc' = "raised"
                     /\ err' = Exc("TypeError", "set_v")
                     /\ UNCHANGED <<self, heap, geos, calls, stdout>>
    /\ UNCHANGED <<cfg, i, res_prev, warned, engines, runs, outs, got>>

\* (self.geo.nVoxel == init.shape).all(): numpy compares the array nVoxel with
\* the tuple element by element when the tuple has three entries, broadcasts a
\* tuple of one entry against all three, and for any other length gives up the
\* element-wise comparison and answers the plain False, which has no .all
ShapeTest(nVoxel, shape) ==
    CASE Len(shape) = 3 ->
           IF \A k \in 1..3 : nVoxel[k] = shape[k] THEN "all" ELSE "not all"
      [] Len(shape) = 1 ->
           IF \A k \in 1..3 : nVoxel[k] = shape[1] THEN "all" ELSE "not all"
      [] OTHER -> "no attribute all"

\* (a wrong 174-180: the call of init_multigrid indented under `if verbose:`)
RunsMultigrid_when_verbose(init, verbose) ==
    init.t = "str" /\ init.s = "multigrid" /\ verbose
\* lines 174-180: init_multigrid is called for init == 'multigrid', and the
\* messages around it are printed if verbose
RunsMultigrid(init, verbose) == init.t = "str" /\ init.s = "multigrid"

\* the body of set_res
set_res ==
    LET nVoxel == geos[self["geo"].ref].nVoxel
        init == self["init"]
        verbose == Truthy(self["verbose"])
        \* np.zeros(self.geo.nVoxel)
        zeros == Len(heap) + 1
        h0 == Append(heap, Array(nVoxel, 0))
        multigrid == RunsMultigrid(init, verbose)
        FDK == init.t = "str" /\ init.s = "FDK"
        \* the result of init_multigrid, then of FDK: a new volume each
        h1 == IF multigrid THEN Append(h0, Array(nVoxel, 40)) ELSE h0
        r1 == IF multigrid THEN Len(h1) ELSE zeros
        h2 == IF FDK THEN Append(h1, Array(nVoxel, 30)) ELSE h1
        r2 == IF FDK THEN Len(h2) ELSE r1
        test == IF init.t = "ndarray" THEN ShapeTest(nVoxel, heap[init.ref].shape)
                ELSE "not an array"
    IN  /\ heap' = h2
        /\ stdout' = IF init.t = "str" /\ init.s = "multigrid" /\ verbose
                       THEN stdout \o <<"init multigrid in progress...",
                                        "default blocksize=1 for init_multigrid(OS_SART)",
                                        "init multigrid complete.">>
                       ELSE stdout
        /\ calls' = calls \o <<"set_res">>
                      \o (IF multigrid THEN <<"init_multigrid">> ELSE <<>>)
                      \o (IF FDK THEN <<"FDK">> ELSE <<>>)
        /\ self' = Update(self, Entry("res",
                      IF test = "all" THEN init ELSE ArrRef(r2)))
        /\ err' = CASE test = "not all" -> Exc("ValueError", "set_res")
                    [] test = "no attribute all" -> Exc("AttributeError", "set_res")
                    [] OTHER -> None
        /\ UNCHANGED geos

\* line 111
SkipSetRes(s) == hasattr(s, "res")

InitRes ==
    /\ pc = "init_res"
    /\ IF SkipSetRes(self)
         THEN /\ pc' = "init_idx"
              /\ UNCHANGED <<self, heap, geos, calls, stdout, err>>
         ELSE IF Callable(self, "set_res")
                THEN set_res /\ pc' = IF err' = None THEN "init_idx" ELSE "raised"
                ELSE /\ pc' = "raised"
                     /\ err' = Exc("TypeError", "set_res")
                     /\ UNCHANGED <<self, heap, geos, calls, stdout>>
    /\ UNCHANGED <<cfg, i, res_prev, warned, engines, runs, outs, got>>

\* the body of set_angle_index: both come from one call of order_subsets
set_angle_index ==
    /\ self' = Update(self,
                  [angleblocks |-> Sched("order_subsets", "angleblocks"),
                   angle_index |-> Sched("order_subsets", "angle_index")])
    /\ calls' = calls \o <<"set_angle_index", "order_subsets">>
    /\ UNCHANGED <<heap, geos, stdout, err>>

\* line 113
SkipSetAngleIndex(s) == hasattr(s, "angleindex") /\ hasattr(s, "angleblocks")

InitAngleIndex ==
    /\ pc = "init_idx"
    /\ IF SkipSetAngleIndex(self)
         THEN /\ pc' = "init_logs"
              /\ UNCHANGED <<self, heap, geos, calls, stdout, err>>
         ELSE IF Callable(self, "set_angle_index")
                THEN set_angle_index /\ pc' = "init_logs"
                ELSE /\ pc' = "raised"
                     /\ err' = Exc("TypeError", "set_angle_index")
                     /\ UNCHANGED <<self, heap, geos, calls, stdout>>
    /\ UNCHANGED <<cfg, i, res_prev, warned, engines, runs, outs, got>>

\* (a wrong 115-116: a log the instance has already is kept, as W, V and res are)
FreshLogs_unless_given(s) ==
    Update([lq |-> List(<<>>), l2l |-> List(<<>>)],
           [k \in DOMAIN s \cap {"lq", "l2l"} |-> s[k]])
\* lines 115-116: two new empty lists
FreshLogs(s) == [lq |-> List(<<>>), l2l |-> List(<<>>)]

\* lines 115-116: both logs start empty, whatever the keywords put there
InitLogs ==
    /\ pc = "init_logs"
    /\ self' = Update(self, FreshLogs(self))
    /\ pc' = "ready"
    /\ UNCHANGED <<cfg, heap, geos, i, res_prev, calls, warned, stdout, err,
                   engines, runs, outs, got>>

\* --------------------------------------------------------------- main loop

\* the last volume, quality log and residual log of the engine
Res == self["res"].ref
Lq == self["lq"].v
L2l == self["l2l"].v

\* (a wrong run_main_iter: one that starts by emptying the logs)
RunMainIter_resets_logs ==
    /\ pc = "ready"
    /\ runs < (IF cfg.use = "function" THEN 1 ELSE MaxCalls)
    /\ pc' = "for"
    /\ i' = 0
    /\ got' = None
    /\ self' = [self EXCEPT !["lq"] = List(<<>>), !["l2l"] = List(<<>>)]
    /\ UNCHANGED <<cfg, heap, geos, res_prev, calls, warned, stdout, err,
                   engines, runs, outs>>
\* run_main_iter is entered: by iterativereconalg once per engine (line 250),
\* by a caller that holds the engine as often as it likes
RunMainIter ==
    /\ pc = "ready"
    /\ runs < (IF cfg.use = "function" THEN 1 ELSE MaxCalls)
    /\ pc' = "for"
    /\ i' = 0
    /\ got' = None
    /\ UNCHANGED <<cfg, self, heap, geos, res_prev, calls, warned, stdout, err,
                   engines, runs, outs>>

\* (a wrong line 211: res_prev = self.res, the volume itself)
deepcopy_array_alias(h, r) == [heap |-> h, ref |-> r]
\* copy.deepcopy(self.res): a new array with the same contents
deepcopy_array(h, r) == [heap |-> Append(h, h[r]), ref |-> Len(h) + 1]

\* the progress messages of round k (lines 212-218)
Progress(verbose, k) ==
    IF ~verbose THEN <<>>
    ELSE IF k = 0 THEN <<"Algorithm in progress.">>
    ELSE IF k = 1 THEN <<"Esitmated time until completetion (s): ">>
    ELSE <<>>

\* the head of the for loop and the round's first lines (208-218); with the
\* range exhausted, run_main_iter returns
ForHead ==
    /\ pc = "for"
    /\ IF i < self["niter"].n
         THEN LET cp == deepcopy_array(heap, Res)
              IN  /\ IF self["Quameasopts"].t # "none"
                       THEN heap' = cp.heap /\ res_prev' = ArrRef(cp.ref)
                       ELSE heap' = heap /\ res_prev' = None
                  /\ stdout' = stdout \o Progress(Truthy(self["verbose"]), i)
                  /\ pc' = "dm"
                  /\ runs' = runs
         ELSE /\ pc' = "ready"
              /\ runs' = runs + 1
              /\ UNCHANGED <<heap, res_prev, stdout>>
    /\ UNCHANGED <<cfg, self, geos, i, calls, warned, err, engines, outs, got>>

\* what a data-minimization or regularisation capability does to the engine:
\* it updates the volume in place
Capability(name, h, r) == [h EXCEPT ![r].val = @ + 2]
\* a capability that fails part of the way: the volume as far as it got
CapabilityPartly(name, h, r, done) == [h EXCEPT ![r].val = @ + done]

RECURSIVE ApplyAll(_, _, _)
ApplyAll(names, h, r) ==
    IF names = <<>> THEN h
    ELSE ApplyAll(Tail(names), Capability(Head(names), h, r), r)

\* (a wrong line 219: the regularisation capability called as well)
RoundCapabilities_with_regularisation(s) == <<s["dataminimizing"].s, s["regularisation"].s>>
\* the capabilities a round invokes, in order (line 219)
RoundCapabilities(s) == <<s["dataminimizing"].s>>

\* line 219, the capability returning
DataMinimizingReturns ==
    /\ pc = "dm"
    /\ heap' = ApplyAll(RoundCapabilities(self), heap, Res)
    /\ calls' = calls \o RoundCapabilities(self)
    /\ pc' = "em"
    /\ UNCHANGED <<cfg, self, geos, i, res_prev, warned, stdout, err, engines,
                   runs, outs, got>>

\* line 219, the capability raising: the exception is in flight in the frame
\* of run_main_iter, the volume is as the capability left it
DataMinimizingRaises ==
    /\ pc = "dm"
    /\ \E done \in {0, 1} :
         heap' = CapabilityPartly(RoundCapabilities(self)[1], heap, Res, done)
    /\ calls' = Append(calls, RoundCapabilities(self)[1])
    /\ err' = Exc("CapabilityFailure", RoundCapabilities(self)[1])
    /\ pc' = "unwinding"
    /\ UNCHANGED <<cfg, self, geos, i, res_prev, warned, stdout, engines, runs, outs, got>>

\* Measure_Quality(res, res_prev, Quameasopts), by what it is given
MQ(cur, prev, opts) == [cur |-> cur, prev |-> prev, opts |-> opts]
\* im3DNORM(proj - Ax(res, geo, angles, 'ray-voxel'), 2), by the volume it is given
ResidualNorm(val) == [norm_of_residual_for |-> val]

\* (a wrong line 223: without `and iter > 0`)
AppendsQuality_every_round(Quameasopts, iter) == Quameasopts.t # "none"
\* line 223
AppendsQuality(Quameasopts, iter) == Quameasopts.t # "none" /\ iter > 0
\* (a wrong line 225: the residual skipped in the first round as the quality is)
AppendsResidual_from_second(computel2, iter) == Truthy(computel2) /\ iter > 0
\* line 225
AppendsResidual(computel2, iter) == Truthy(computel2)

\* the quality log after line 224
LqAfter ==
    IF AppendsQuality(self["Quameasopts"], i)
      THEN Append(Lq, MQ(heap[Res].val, heap[res_prev.ref].val, self["Quameasopts"].v))
      ELSE Lq
MeasureCalls ==
    (IF AppendsQuality(self["Quameasopts"], i) THEN <<"MQ">> ELSE <<>>)
      \o (IF AppendsResidual(self["computel2"], i) THEN <<"Ax">> ELSE <<>>)

\* line 220 and error_measurement, returning
ErrorMeasurementReturns ==
    /\ pc = "em"
    /\ self' = [self EXCEPT
                  !["lq"] = List(LqAfter),
                  !["l2l"] = IF AppendsResidual(self["computel2"], i)
                               THEN List(Append(L2l, ResidualNorm(heap[Res].val)))
                               ELSE @]
    /\ calls' = calls \o MeasureCalls
    /\ i' = i + 1
    /\ pc' = "for"
    /\ UNCHANGED <<cfg, heap, geos, res_prev, warned, stdout, err, engines, runs, outs, got>>

\* error_measurement with Ax raising at line 227: the quality entry of line 224
\* is in the log already, the residual entry is never appended
ErrorMeasurementRaises ==
    /\ pc = "em"
    /\ AppendsResidual(self["computel2"], i)
    /\ self' = [self EXCEPT !["lq"] = List(LqAfter)]
    /\ calls' = calls \o MeasureCalls
    /\ err' = Exc("CapabilityFailure", "Ax")
    /\ pc' = "unwinding"
    /\ UNCHANGED <<cfg, heap, geos, i, res_prev, warned, stdout, engines, runs, outs, got>>

\* (a wrong run_main_iter: a handler that sets the volume back to the snapshot)
Propagate_rollback ==
    /\ pc = "unwinding"
    /\ pc' = "raised"
    /\ heap' = IF res_prev.t = "ndarray" THEN [heap EXCEPT ![Res] = heap[res_prev.ref]]
               ELSE heap
    /\ UNCHANGED <<cfg, self, geos, i, res_prev, calls, warned, stdout, err,
                   engines, runs, outs, got>>
\* run_main_iter and iterativereconalg have no handler and no finally: the
\* exception passes through their frames to the caller and nothing else happens
Propagate ==
    /\ pc = "unwinding"
    /\ pc' = "raised"
    /\ UNCHANGED <<cfg, self, heap, geos, i, res_prev, calls, warned, stdout, err,
                   engines, runs, outs, got>>

\* -------------------------------------------------------------- accessors

\* lines 230-231 and 233-234: the attribute itself, not a copy of it
getres(s) == s["res"]
getl2(s) == s["l2l"]

\* a caller that holds the engine calls getres between two of its other calls
GetRes ==
    /\ pc = "ready"
    /\ cfg.use = "class"
    /\ got' = getres(self)
    /\ UNCHANGED <<cfg, pc, self, heap, geos, i, res_prev, calls, warned, stdout,
                   err, engines, runs, outs>>

\* and likewise getl2
GetL2 ==
    /\ pc = "ready"
    /\ cfg.use = "class"
    /\ got' = getl2(self)
    /\ UNCHANGED <<cfg, pc, self, heap, geos, i, res_prev, calls, warned, stdout,
                   err, engines, runs, outs>>

\* ------------------------------------------------------------ entry point

\* (a wrong 251-254: the pair returned whatever computel2 is)
Result_pair_always ==
    [pair |-> TRUE, res |-> getres(self), val |-> heap[getres(self).ref].val,
     l2l |-> getl2(self).v]
\* lines 251-254: what iterativereconalg returns (a pair or the volume alone),
\* with the volume's contents as the caller finds them on return
Result ==
    IF Truthy(self["computel2"])
      THEN [pair |-> TRUE, res |-> getres(self), val |-> heap[getres(self).ref].val,
            l2l |-> getl2(self).v]
      ELSE [pair |-> FALSE, res |-> getres(self), val |-> heap[getres(self).ref].val,
            l2l |-> <<>>]

Return ==
    /\ pc = "ready"
    /\ cfg.use = "function"
    /\ runs = 1
    /\ outs' = Append(outs, Result)
    /\ pc' = "idle"
    /\ UNCHANGED <<cfg, self, heap, geos, i, res_prev, calls, warned, stdout, err,
                   engines, runs, got>>

Next ==
    \/ InitAttrs
    \/ InitW
    \/ InitV
    \/ InitRes
    \/ InitAngleIndex
    \/ InitLogs
    \/ RunMainIter
    \/ ForHead
    \/ DataMinimizingReturns
    \/ DataMinimizingRaises
    \/ ErrorMeasurementReturns
    \/ ErrorMeasurementRaises
    \/ Propagate
    \/ GetRes
    \/ GetL2
    \/ Return

Spec == Init /\ [][Next]_vars

\* ------------------------------------------------------------- properties

\* the options in force: the defaults with the caller's keywords on top
Opt(name) == Update(options, cfg.kwargs)[name]
QualityOn == Opt("Quameasopts").t # "none"
ResidualOn == Truthy(Opt("computel2"))
DataMin == Opt("dataminimizing").s
Regul == Opt("regularisation").s

\* construction has returned an engine
Constructed == pc \in {"ready", "for", "dm", "em", "unwinding"}
\* the first run_main_iter of an engine has returned
FirstRunDone == pc = "ready" /\ runs = 1

\* the capability and measurement calls of the loop, in order: calls without
\* what construction invoked
LoopCalls ==
    LET all == Restrict(calls, {DataMin, Regul, "MQ", "Ax"})
    IN  IF Count(calls, "set_w") > 0 THEN Tail(all) ELSE all

IsPrefix(s, full) == Len(s) <= Len(full) /\ s = SubSeq(full, 1, Len(s))

\* what rounds k, k+1, ..., n-1 of one run call when each round calls `caps`
RECURSIVE RoundsFrom(_, _, _)
RoundsFrom(k, n, caps) ==
    IF k >= n THEN <<>>
    ELSE caps \o (IF QualityOn /\ k > 0 THEN <<"MQ">> ELSE <<>>)
              \o (IF ResidualOn THEN <<"Ax">> ELSE <<>>)
              \o RoundsFrom(k + 1, n, caps)

C2_QualityLogLength ==
    (FirstRunDone /\ cfg.niter >= 1) =>
      Len(Lq) = IF QualityOn THEN cfg.niter - 1 ELSE 0

C2_Witness ==
    /\ FirstRunDone
    /\ QualityOn
    /\ cfg.niter >= 2
    /\ Len(Lq) = cfg.niter - 1

\* C3: when the first run of a fresh engine has returned, l2l has niter entries
\* with residual tracking on and none with it off (niter = 0 included); during
\* that run one entry has been appended per finished round, and the newest is
\* the norm for the volume as the round's update left it.
C3_ResidualLogLength ==
    /\ FirstRunDone => Len(L2l) = IF ResidualOn THEN cfg.niter ELSE 0
    /\ (pc = "for" /\ runs = 0) => Len(L2l) = IF ResidualOn THEN i ELSE 0
    /\ (pc = "for" /\ runs = 0 /\ ResidualOn /\ i > 0) =>
         L2l[Len(L2l)] = ResidualNorm(heap[Res].val)

C3_Witness ==
    /\ FirstRunDone
    /\ ResidualOn
    /\ cfg.niter >= 2
    /\ Len(L2l) = cfg.niter
    /\ L2l[1] # L2l[2]

\* the caller passes an array as init and nothing that keeps __init__ from
\* reaching or calling set_res
InitArrayGiven ==
    /\ PassesInitArray(cfg.kwargs)
    /\ "res" \notin DOMAIN cfg.kwargs
    /\ Unrecognised(cfg.kwargs) = {}
\* that array's shape is not the geometry's voxel shape
InitShapeDiffers == cfg.initShape # cfg.geo.nVoxel

\* C4, as stated (and leaving the kind of error open): with an init array whose
\* shape differs from the voxel shape, construction does not get past set_res,
\* no engine is returned and the data-minimization capability is never called.
C4_MismatchedInitFails ==
    (InitArrayGiven /\ InitShapeDiffers) =>
      /\ pc \in {"idle", "init_w", "init_v", "init_res", "raised"}
      /\ outs = <<>>
      /\ Count(calls, DataMin) = 0

\* the four derived quantities, the keywords that supply each, its builder
Derived == {"W", "V", "res", "schedule"}
KeysOf(q) == IF q = "schedule" THEN {"angleblocks", "angle_index"} ELSE {q}
BuilderOf(q) ==
    CASE q = "W" -> "set_w"
      [] q = "V" -> "set_v"
      [] q = "res" -> "set_res"
      [] q = "schedule" -> "set_angle_index"
Supplied(q) == KeysOf(q) \subseteq DOMAIN cfg.kwargs

\* C5, as stated: after construction (the caller passing none of the names the
\* claim is not about), a derived quantity the caller supplied has not had its
\* builder invoked and is the caller's value, and one the caller did not supply
\* has had its builder invoked exactly once.
C5_SuppliedSkipsBuilder ==
    (pc = "ready" /\ runs = 0 /\ Unrecognised(cfg.kwargs) \subseteq {"res"}) =>
      \A q \in Derived :
        IF Supplied(q)
          THEN /\ Count(calls, BuilderOf(q)) = 0
               /\ \A k \in KeysOf(q) : self[k] = cfg.kwargs[k]
          ELSE Count(calls, BuilderOf(q)) = 1

\* the caller supplies a W or a V of another shape than its builder would give
BadW == "W" \in DOMAIN cfg.kwargs /\ cfg.kwargs["W"].shape # ShapeOfW(cfg.geo, cfg.angles)
BadV == "V" \in DOMAIN cfg.kwargs /\ cfg.kwargs["V"].shape # ShapeOfV(cfg.geo, cfg.angles)

\* C6, as stated: with a supplied W or V of the wrong shape construction fails,
\* so no engine comes out of it and the loop never starts.
C6_MismatchedFieldFails ==
    (BadW \/ BadV) => (~Constructed /\ Count(calls, DataMin) = 0)

\* C6, amended: __init__ checks no shape of a supplied W or V; from the first
\* line on the engine holds the supplied field as given, its builder is never
\* invoked, and the only dimension error construction raises is that of set_res
\* for the init array.
C6_SuppliedFieldKeptUnchecked ==
    /\ \A f \in {"W", "V"} :
         (f \in DOMAIN cfg.kwargs /\ pc # "idle") =>
           /\ self[f] = cfg.kwargs[f]
           /\ Count(calls, BuilderOf(f)) = 0
    /\ (pc = "raised" /\ err.kind \in {"ValueError", "AttributeError"}) =>
         /\ err.where = "set_res"
         /\ PassesInitArray(cfg.kwargs)
         /\ InitShapeDiffers \/ cfg.initShape = <<>>

C6_Witness ==
    /\ BadW
    /\ BadV
    /\ pc = "em"
    /\ self["W"] = cfg.kwargs["W"]
    /\ self["V"].shape # ShapeOfV(geos[1], self["angles"])
    /\ Count(calls, DataMin) = 1

\* C7, as stated: with a keyword that is not recognised, construction and the
\* run are never fatal on its account, the warning is given exactly when
\* verbose is on, every recognised option has its default or the caller's
\* value, and the volume and the schedule are built as without the keyword.
C7_UnrecognisedIsHarmless ==
    (Unrecognised(cfg.kwargs) # {} /\ pc # "idle") =>
      /\ ~(pc = "raised" /\ err.kind = "TypeError")
      /\ warned = IF Truthy(Opt("verbose")) THEN Unrecognised(cfg.kwargs) ELSE {}
      /\ \A o \in DOMAIN options : self[o] = Opt(o)
      /\ pc = "ready" =>
           Count(calls, "set_res") = 1 /\ Count(calls, "set_angle_index") = 1

\* a capability has failed in the loop and the failure has reached the caller
LoopFailed == pc = "raised" /\ err.kind = "CapabilityFailure"

\* C8: a capability failure in round i passes through run_main_iter as it is:
\* on its way to the caller nothing changes (the exception is the same, the
\* volume stays as the failed call left it, and is not set back to the
\* snapshot), and once it has reached the caller the failed round's capability
\* has been called once and never again, no later round has begun, and the
\* logs hold what was appended before the failure and nothing more; the
\* failed call of iterativereconalg returns nothing.
C8_FailureAbortsRun ==
    /\ [][pc = "unwinding" =>
            /\ pc' = "raised"
            /\ UNCHANGED <<self, heap, i, res_prev, calls, err, runs, outs, got>>]_vars
    /\ [][pc = "raised" => UNCHANGED vars]_vars
    /\ [](LoopFailed =>
            /\ Count(calls, DataMin) = runs * cfg.niter + i + 1
            /\ Len(L2l) = IF ResidualOn THEN runs * cfg.niter + i ELSE 0
            /\ Len(Lq) = IF ~QualityOn THEN 0
                         ELSE runs * (cfg.niter - 1)
                                + (IF err.where = "Ax" THEN i ELSE Max2(i - 1, 0))
            /\ Len(outs) = engines - 1)

\* a failure in a later round that left the volume partly updated, with the
\* round's snapshot at hand and different from it
C8_Witness ==
    /\ LoopFailed
    /\ err.where = DataMin
    /\ i >= 1
    /\ res_prev.t = "ndarray"
    /\ heap[Res].val = heap[res_prev.ref].val + 1
    /\ Len(Lq) = i - 1

\* C9, as stated: two calls of iterativereconalg with the same inputs return
\* the same volume and the same residual log.
C9_SameInputsSameOutputs ==
    Len(outs) >= 2 => (outs[1].val = outs[2].val /\ outs[1].l2l = outs[2].l2l)

\* C10: the caller's geometry has at every moment the contents the caller gave
\* it, and the engine's geo is that very object; what set_w shrinks is another
\* object, which no attribute of the engine refers to.
C10_CallerGeometryUnchanged ==
    /\ geos[1] = cfg.geo
    /\ pc # "idle" => self["geo"] = GeoRef(1)
    /\ \A k \in DOMAIN self : self[k].t = "geo" => self[k].ref = 1

\* set_w and set_v have both run on a geometry that is not 2x2x2, and the
\* shrunk copy differs from the caller's geometry in all three fields
C10_Witness ==
    /\ Count(calls, "set_w") = 1
    /\ Count(calls, "set_v") = 1
    /\ cfg.geo.nVoxel # <<2, 2, 2>>
    /\ Len(geos) = 2
    /\ geos[2].nVoxel = <<2, 2, 2>>
    /\ geos[2].sVoxel = <<10, 10, 16>>
    /\ geos[2].dVoxel = <<5, 5, 8>>
    /\ geos[1] = cfg.geo

\* C11: on one engine, from the moment construction has returned it, no step
\* shortens a log or changes an entry it holds (each log before the step is a
\* prefix of the log after it), a step appends at most one entry to each log,
\* only error_measurement appends, and so a round appends at most one entry to
\* each; getres and getl2 change nothing of the engine; and when construction
\* returns both logs are empty, whatever the keywords were.
C11_LogsAppendOnly ==
    /\ [][Constructed =>
            /\ IsPrefix(Lq, Lq') /\ Len(Lq') <= Len(Lq) + 1
            /\ IsPrefix(L2l, L2l') /\ Len(L2l') <= Len(L2l) + 1
            /\ (Lq' # Lq \/ L2l' # L2l) => pc = "em"
            /\ got' # got => UNCHANGED <<self, heap>>]_vars
    /\ [](pc = "for" => /\ Len(Lq) <= runs * Max2(cfg.niter - 1, 0) + i
                        /\ Len(L2l) <= runs * cfg.niter + i)
    /\ []((pc = "ready" /\ runs = 0) => (Lq = <<>> /\ L2l = <<>>))

\* the second run of an engine has returned, getl2 has handed out the residual
\* log, and both logs hold the entries of both runs
C11_Witness ==
    /\ pc = "ready"
    /\ runs = 2
    /\ got = self["l2l"]
    /\ Len(L2l) = 2 * cfg.niter
    /\ Len(Lq) >= 2

\* construction has returned with the caller having passed a log of its own
C11_WitnessGivenLog ==
    /\ pc = "ready"
    /\ runs = 0
    /\ "l2l" \in DOMAIN cfg.kwargs
    /\ cfg.kwargs["l2l"].v # <<>>
    /\ L2l = <<>>

\* set_w has built the engine's W
WBuilt == "W" \in DOMAIN self /\ self["W"].src = "set_w"
\* one quarter of the minimum voxel size of the caller's geometry
QuarterOfMinVoxel == MinOf([k \in 1..3 |-> Rat(cfg.geo.dVoxel[k], 4)])

\* C12, as stated: every entry of the W that set_w built is finite and
\* non-negative; it is 0 where the ray is shorter than one quarter of the
\* minimum voxel size, and the reciprocal of the ray length everywhere else.
C12_WFiniteNonNegative ==
    WBuilt =>
      \A k \in DOMAIN self["W"].v :
        LET ray == Ax_of_ones(cfg)[k]
            w == self["W"].v[k]
        IN  /\ Finite(w)
            /\ NonNegative(w)
            /\ w = IF Less(ray, QuarterOfMinVoxel) THEN Rat(0, 1) ELSE Reciprocal(ray)

\* the same for voxel arrays of a float dtype only
C12_FloatVoxelsOnly == cfg.geo.dtype = "float" => C12_WFiniteNonNegative

\* set_v has built the engine's V
VBuilt == "V" \in DOMAIN self /\ self["V"].src = "set_v"
\* the indices of an array of three dimensions
Indices(shape) == (1..shape[1]) \X (1..shape[2]) \X (1..shape[3])

\* C13: in parallel-beam mode the V that set_v built has the shape
\* (angles.shape[0], nVoxel[1], nVoxel[0]) and is 1 at every index, whatever
\* the angles are.
C13_ParallelVIsOnes ==
    (VBuilt /\ cfg.geo.mode = "parallel") =>
      /\ self["V"].shape = <<NAngles(cfg.angles), cfg.geo.nVoxel[2], cfg.geo.nVoxel[1]>>
      /\ \A idx \in Indices(self["V"].shape) : EntryOfV(self["V"], idx) = Rat(1, 1)

\* set_v has run in parallel-beam mode on a volume that is not a cube, for
\* three poses given as scalars
C13_Witness ==
    /\ VBuilt
    /\ cfg.geo.mode = "parallel"
    /\ cfg.geo.nVoxel = <<2, 3, 2>>
    /\ cfg.angles.ndim = 1
    /\ self["V"].shape = <<3, 3, 2>>
    /\ pc = "ready"

\* the same inputs with verbose reporting the other way
Twin(c) ==
    [c EXCEPT !.kwargs =
        IF "verbose" \in DOMAIN @
          THEN [k \in DOMAIN @ \ {"verbose"} |-> @[k]]
          ELSE Update(@, Entry("verbose", Bool(FALSE)))]

\* What construction and n returned runs of engine number e come to, as a
\* function of the inputs that never reads verbose: the builders and
\* capabilities invoked, in order; the error construction ends with; the volume
\* and the two logs.
Outcome(c, e, n) ==
    LET kw == c.kwargs
        opt(name) == Update(options, kw)[name]
        init == opt("init")
        quality == opt("Quameasopts").t # "none"
        residual == Truthy(opt("computel2"))
        noSetW == "W" \notin DOMAIN kw /\ "set_w" \in DOMAIN kw
        test == IF ~noSetW /\ "res" \notin DOMAIN kw /\ init.t = "ndarray"
                  THEN ShapeTest(c.geo.nVoxel, c.initShape) ELSE "not an array"
        failed == noSetW \/ test \in {"not all", "no attribute all"}
        built ==
          (IF "W" \in DOMAIN kw \/ noSetW THEN <<>> ELSE <<"set_w", "Ax">>)
          \o (IF "V" \in DOMAIN kw \/ noSetW THEN <<>> ELSE <<"set_v">>)
          \o (IF "res" \in DOMAIN kw \/ noSetW THEN <<>>
              ELSE <<"set_res">>
                   \o (IF init = Str("multigrid") THEN <<"init_multigrid">> ELSE <<>>)
                   \o (IF init = Str("FDK") THEN <<"FDK">> ELSE <<>>))
          \o (IF failed \/ {"angleindex", "angleblocks"} \subseteq DOMAIN kw THEN <<>>
              ELSE <<"set_angle_index", "order_subsets">>)
        round(k) == <<opt("dataminimizing").s>>
                      \o (IF quality /\ k > 0 THEN <<"MQ">> ELSE <<>>)
                      \o (IF residual THEN <<"Ax">> ELSE <<>>)
        run == [k \in 0..(c.niter - 1) |-> round(k)]
        RECURSIVE Flat(_)
        Flat(k) == IF k >= c.niter THEN <<>> ELSE run[k] \o Flat(k + 1)
        start ==
          CASE "res" \in DOMAIN kw -> 20
            [] test = "all" -> 10 + 2 * c.niter * (e - 1)
            [] init = Str("FDK") -> 30
            [] init = Str("multigrid") -> 40
            [] OTHER -> 0
        perRun == Max2(c.niter - 1, 0)
    IN  [calls |-> built \o Repeat(Flat(0), n),
         err |-> CASE noSetW -> Exc("TypeError", "set_w")
                   [] test = "not all" -> Exc("ValueError", "set_res")
                   [] test = "no attribute all" -> Exc("AttributeError", "set_res")
                   [] OTHER -> None,
         val |-> start + 2 * c.niter * n,
         lq |-> IF ~quality THEN <<>>
                ELSE [j \in 1..(n * perRun) |->
                        LET done == ((j - 1) \div perRun) * c.niter
                                      + ((j - 1) % perRun) + 1
                        IN  MQ(start + 2 * (done + 1), start + 2 * done,
                               opt("Quameasopts").v)],
         l2l |-> IF ~residual THEN <<>>
                 ELSE [j \in 1..(n * c.niter) |-> ResidualNorm(start + 2 * j)]]

\* C14: whatever verbose is, the builders and capabilities invoked are at every
\* moment a prefix of those of the outcome, which is the same for the inputs
\* with verbose the other way; a construction that fails, fails with the
\* outcome's error; and whenever a run has returned, the calls made, the volume
\* and both logs are the outcome's.
C14_VerboseChangesNothing ==
    LET full == Outcome(cfg, engines, MaxCalls)
        none == Outcome(cfg, engines, 0)
        now == Outcome(cfg, engines, runs)
    IN  /\ pc = "idle" =>
             \A n \in 0..MaxCalls :
               Outcome(cfg, engines + 1, n) = Outcome(Twin(cfg), engines + 1, n)
        /\ pc # "idle" => IsPrefix(calls, full.calls)
        /\ (pc = "raised" /\ err.kind # "CapabilityFailure") =>
             (err = none.err /\ calls = none.calls)
        /\ pc = "ready" =>
             /\ now.err = None
             /\ calls = now.calls
             /\ heap[Res].val = now.val
             /\ Lq = now.lq
             /\ L2l = now.l2l

\* a run with verbose off, an initial volume from the multigrid solver and both
\* logs kept has returned having printed nothing
C14_Witness ==
    /\ FirstRunDone
    /\ Opt("verbose") = Bool(FALSE)
    /\ Opt("init") = Str("multigrid")
    /\ QualityOn
    /\ ResidualOn
    /\ cfg.niter >= 2
    /\ stdout = <<>>
    /\ heap[Res].val = 40 + 2 * cfg.niter
    /\ Len(Lq) = cfg.niter - 1

\* C15: a call of iterativereconalg returns only from an engine it has
\* constructed itself (one engine per call), on which run_main_iter has
\* returned exactly once, with niter data-minimization calls made; what it
\* returns is a pair exactly when computel2 is true, its volume is the
\* engine's res with the contents the last round left, and the pair's second
\* component is the engine's l2l.
C15_EntryPointReturns ==
    [][outs' # outs =>
         /\ cfg.use = "function"
         /\ Len(outs') = Len(outs) + 1
         /\ SubSeq(outs', 1, Len(outs)) = outs
         /\ engines = Len(outs')
         /\ runs = 1
         /\ Count(calls, DataMin) = cfg.niter
         /\ LET r == outs'[Len(outs')]
            IN  /\ r.pair = ResidualOn
                /\ r.res = self["res"]
                /\ r.val = heap[Res].val
                /\ r.pair => (r.l2l = L2l /\ Len(r.l2l) = cfg.niter)]_vars

\* two calls have returned, each a pair with a residual per round
C15_Witness ==
    /\ Len(outs) = 2
    /\ outs[2].pair
    /\ cfg.niter >= 2
    /\ Len(outs[2].l2l) = cfg.niter
    /\ outs[2].val = heap[Res].val
    /\ outs[2].val > 0

\* C16: with quality tracking on, a round's snapshot is made in the step that
\* begins the round, before any capability of the round is called, is another
\* array than the volume and holds what the volume held when the last round
\* ended; no update of the round touches it; between two rounds nothing
\* touches the volume; and the quality entry of round i >= 1 compares the
\* volume after the round's update (current) with that snapshot (previous),
\* the two being one round's update apart.
C16_SnapshotBeforeUpdate ==
    /\ [][(pc = "for" /\ pc' = "dm" /\ QualityOn) =>
            /\ res_prev'.t = "ndarray"
            /\ res_prev'.ref # Res
            /\ heap'[res_prev'.ref] = heap[Res]
            /\ heap'[Res] = heap[Res]
            /\ calls' = calls]_vars
    /\ [][(pc \in {"dm", "em", "unwinding"} /\ QualityOn) =>
            (res_prev' = res_prev /\ heap'[res_prev.ref] = heap[res_prev.ref])]_vars
    /\ [][(pc \in {"em", "for", "ready"}) => (heap'[Res'] = heap[Res])]_vars
    /\ [][(Constructed /\ Len(Lq') > Len(Lq)) =>
            /\ i >= 1
            /\ Lq'[Len(Lq')] = MQ(heap[Res].val, heap[res_prev.ref].val,
                                  Opt("Quameasopts").v)
            /\ heap[Res].val = heap[res_prev.ref].val + 2
            /\ Len(Lq) > runs * Max2(cfg.niter - 1, 0) =>
                 Lq'[Len(Lq')].prev = Lq[Len(Lq)].cur]_vars

\* the third round of a run has been measured: two quality entries, the
\* second one's previous volume being the first one's current volume
C16_Witness ==
    /\ pc = "for"
    /\ i = 3
    /\ QualityOn
    /\ Len(Lq) >= 2
    /\ Lq[Len(Lq)].prev = Lq[Len(Lq) - 1].cur
    /\ Lq[Len(Lq)].cur = heap[Res].val
    /\ heap[res_prev.ref].val = heap[Res].val - 2

\* the caller's poses in 3-component form, in the caller's order
ThreeComponent(a) ==
    IF a.ndim = 1 THEN [k \in 1..Len(a.v) |-> <<a.v[k], 0, 0>>] ELSE a.rows

\* C17: from the first line after the normalisation on, and so in every state
\* from which a builder or a capability is invoked, the engine's angles are
\* two-dimensional with one row of three components per pose of the caller, in
\* the caller's order: (a_k, 0, 0) for scalars, the caller's rows otherwise.
C17_AnglesThreeComponent ==
    /\ [](pc # "idle" =>
            /\ self["angles"].ndim = 2
            /\ self["angles"].rows = ThreeComponent(cfg.angles)
            /\ Len(self["angles"].rows) = NAngles(cfg.angles)
            /\ \A k \in 1..Len(self["angles"].rows) : Len(self["angles"].rows[k]) = 3)
    /\ [][calls' # calls => (pc # "idle" \/ calls' = <<>>)]_vars

\* an engine has been constructed from three scalar angles, and W and V were
\* built for three poses
C17_Witness ==
    /\ pc = "ready"
    /\ cfg.angles.ndim = 1
    /\ self["angles"].rows = <<<<1, 0, 0>>, <<2, 0, 0>>, <<3, 0, 0>>>>
    /\ WBuilt
    /\ VBuilt
    /\ self["W"].shape[1] = 3
    /\ Count(calls, "set_angle_index") = 1

\* C18, as stated: with init given as an array of the voxel shape, the engine's
\* volume is never the caller's array, and that array keeps the contents the
\* caller gave it whatever the engine does.
C18_VolumeOwnedByEngine ==
    (InitArrayGiven /\ ~InitShapeDiffers) =>
      /\ heap[1] = CallerHeap(cfg)[1]
      /\ Constructed => Res # 1

\* C19, as stated: in cone-beam mode the V that set_v built has three
\* dimensions, the first as long as there are angles and the other two as long
\* as the two coordinate ramps, in the parallel-beam V's order (angle first).
C19_ConeVAnglesFirst ==
    (VBuilt /\ cfg.geo.mode # "parallel") =>
      /\ Len(self["V"].shape) = 3
      /\ self["V"].shape[1] = NAngles(cfg.angles)
      /\ <<self["V"].shape[2], self["V"].shape[3]>>
           \in {<<RampLen(cfg.geo, 1), RampLen(cfg.geo, 2)>>,
                <<RampLen(cfg.geo, 2), RampLen(cfg.geo, 1)>>}

\* C20: when the k-th call of run_main_iter on one engine has returned without
\* a failure, the data-minimization capability has been invoked k * niter
\* times on it, l2l has k * niter entries with residual tracking on, lq has
\* k * (niter - 1) entries with quality tracking on and niter >= 1, and the
\* volume is k * niter updates from the one construction left; entering
\* run_main_iter again changes neither the volume nor the logs.
C20_CallsAccumulate ==
    /\ [](pc = "ready" =>
            /\ Count(calls, DataMin) = runs * cfg.niter
            /\ ResidualOn => Len(L2l) = runs * cfg.niter
            /\ (QualityOn /\ cfg.niter >= 1) => Len(Lq) = runs * (cfg.niter - 1)
            /\ heap[Res].val = Outcome(cfg, engines, 0).val + 2 * runs * cfg.niter)
    /\ [][(pc = "ready" /\ pc' = "for") =>
            (Res' = Res /\ heap' = heap /\ Lq' = Lq /\ L2l' = L2l)]_vars

\* the second call on one engine has returned, with both logs kept
C20_Witness ==
    /\ pc = "ready"
    /\ cfg.use = "class"
    /\ runs = 2
    /\ cfg.niter >= 2
    /\ QualityOn
    /\ ResidualOn
    /\ Count(calls, DataMin) = 2 * cfg.niter
    /\ Len(L2l) = 2 * cfg.niter
    /\ Len(Lq) = 2 * (cfg.niter - 1)
    /\ L2l[cfg.niter + 1] # L2l[1]

====
